---- MODULE Spec2Model ----
(***************************************************************************)
(* The compliance analysis engine of src/app/api/simple/route.ts: the      *)
(* `analyze` endpoint (POST -> handleAnalysis -> callGemini), its reply    *)
(* parser and its result normalizer.                                       *)
(*                                                                         *)
(* Strings.  A JavaScript string is a sequence of segments [ch, n]: the    *)
(* first n characters of the text named ch.  "{" and "}" are the one       *)
(* character texts the parser's regular expression looks for; every other *)
(* text stands for characters that are neither.  Lengths are in            *)
(* characters, so substring(0, 200) and substring(0, 8000) cut where the   *)
(* code cuts.                                                              *)
(*                                                                         *)
(* Numbers are in tenths: 5 is 0.5, 10 is 1, 50 is 5.                      *)
(*                                                                         *)
(* Left out: the generated id, timestamp and citation page of a result    *)
(* (Math.random / Date), which no later step of the handler reads.         *)
(*                                                                         *)
(* The page component of src/unnamed/part_000 (ReadilyProfessional): its   *)
(* five useState values are the fields of page; fetches holds the analyze  *)
(* requests that runAnalysis has sent and that have not come back, settled *)
(* the outcome of the last one that came back, invocations the number of   *)
(* times runAnalysis was called.  The alerts are left out.                 *)
(*                                                                         *)
(* The upload components of src/components.tsx.  policyUpload and          *)
(* questionUpload hold the useState values of PolicyUpload and             *)
(* QuestionUpload; policyFetches and questionFetches the calls of          *)
(* processFiles / processFile that are waiting for their response, each    *)
(* with the values its closure captured; onUploadComplete is the page's    *)
(* handlePolicyUpload / handleQuestionUpload, so the list passed to it is   *)
(* page.policies / page.questions.  The k-th upload sends file k, and a     *)
(* policy carries the number of the file it came from.  returned and       *)
(* removed record the policies that successful uploads returned and that   *)
(* removeFile took away.  isDragOver and uploadProgress are left out.      *)
(*                                                                         *)
(* Time.  clock counts the milliseconds the handler has spent in its       *)
(* setTimeout delay; a backend call may take no time at all, so the clock  *)
(* difference of two calls is the least time that can lie between them.    *)
(***************************************************************************)
EXTENDS Integers, Sequences, FiniteSets, TLC

VARIABLES GOOGLE_API_KEY, endpoint, handler, body, pc, idx, prompt, results,
          response, calls, clock,
          page, fetches, settled, invocations,
          policyUpload, policyFetches, policyStarted, returned, removed,
          questionUpload, questionFetches, questionStarted

(* the request handler of route.ts *)
server == <<GOOGLE_API_KEY, endpoint, handler, body, pc, idx, prompt, results,
            response, calls, clock>>

(* the page component *)
pageVars == <<page, fetches, settled, invocations>>

(* the PolicyUpload component *)
policyVars == <<policyUpload, policyFetches, policyStarted, returned, removed>>

(* the QuestionUpload component *)
questionVars == <<questionUpload, questionFetches, questionStarted>>

uploadVars == <<policyVars, questionVars>>

(* the components in the browser *)
ui == <<pageVars, uploadVars>>

vars == <<server, ui>>

(* ------------------------------ bounds --------------------------------- *)

MaxQuestions == 2

MaxPolicies == 2

MaxInvocations == 3

MaxUploads == 4

(* ------------------------------ strings -------------------------------- *)

Lit(c, k) == <<[ch |-> c, n |-> k]>>

RECURSIVE StrLen(_)
StrLen(s) == IF s = <<>> THEN 0 ELSE Head(s).n + StrLen(Tail(s))

RECURSIVE Substring0(_, _)
Substring0(s, k) ==
  IF s = <<>> \/ k <= 0 THEN <<>>
  ELSE IF Head(s).n <= k
       THEN <<Head(s)>> \o Substring0(Tail(s), k - Head(s).n)
       ELSE <<[ch |-> Head(s).ch, n |-> k]>>

RECURSIVE Join(_, _)
Join(strs, sep) ==
  IF strs = <<>> THEN <<>>
  ELSE IF Len(strs) = 1 THEN strs[1]
  ELSE strs[1] \o sep \o Join(Tail(strs), sep)

LBrace == Lit("{", 1)

RBrace == Lit("}", 1)

SetMin(S) == CHOOSE x \in S : \A y \in S : x <= y

SetMax(S) == CHOOSE x \in S : \A y \in S : x >= y

(* --------------------------- JavaScript values -------------------------- *)

Undefined == [t |-> "undefined", n |-> 0, s |-> <<>>]

Null == [t |-> "null", n |-> 0, s |-> <<>>]

NaN == [t |-> "NaN", n |-> 0, s |-> <<>>]

Num(k) == [t |-> "number", n |-> k, s |-> <<>>]

Str(s) == [t |-> "string", n |-> 0, s |-> s]

Truthy(v) ==
  CASE v.t = "number" -> v.n # 0
    [] v.t = "string" -> v.s # <<>>
    [] v.t = "object" -> TRUE
    [] OTHER -> FALSE

(* a || b *)
OrElse(a, b) == IF Truthy(a) THEN a ELSE b

(* ToNumber, as Math.min and Math.max apply it to their arguments; every
   string of the model is text that is no numeral *)
ToNumber(v) ==
  CASE v.t = "number" -> v
    [] v.t = "null" -> Num(0)
    [] v.t = "string" -> IF v.s = <<>> THEN Num(0) ELSE NaN
    [] OTHER -> NaN

MathMin(a, b) ==
  LET x == ToNumber(a)
      y == ToNumber(b)
  IN IF x.t = "NaN" \/ y.t = "NaN" THEN NaN
     ELSE IF x.n <= y.n THEN x ELSE y

MathMax(a, b) ==
  LET x == ToNumber(a)
      y == ToNumber(b)
  IN IF x.t = "NaN" \/ y.t = "NaN" THEN NaN
     ELSE IF x.n >= y.n THEN x ELSE y

(* The value JSON.parse returns: a primitive, or an object with the four
   properties the handler reads (an array is an object with none of them). *)
NoFields ==
  [status |-> Undefined, confidence |-> Undefined,
   reasoning |-> Undefined, citation |-> Undefined]

Prim(v) == [t |-> v.t, n |-> v.n, s |-> v.s, f |-> NoFields]

Obj(fields) == [t |-> "object", n |-> 0, s |-> <<>>, f |-> fields]

(* v.p throws a TypeError exactly when v is null or undefined *)
Throws(v) == v.t \in {"null", "undefined"}

Get(v, p) == IF v.t = "object" THEN v.f[p] ELSE Undefined

(* ------------------------------- inputs ------------------------------- *)

(* An element of the questions array: an AuditQuestion object, or the JSON
   value null. *)
QuestionAt(i) == [isNull |-> FALSE, id |-> i, text |-> Lit("question", 40 + i)]

NullQuestion == [isNull |-> TRUE, id |-> 0, text |-> <<>>]

PolicyAt(i) == [name |-> Lit("policy.pdf", 6 + i), content |-> Lit("content", 4500 * i)]

Absent == [kind |-> "absent", items |-> <<>>]

Array(items) == [kind |-> "array", items |-> items]

QuestionLists ==
  UNION {[1..n -> BOOLEAN] : n \in 0..MaxQuestions}

QuestionsOf(nulls) ==
  [i \in DOMAIN nulls |-> IF nulls[i] THEN NullQuestion ELSE QuestionAt(i)]

PolicyList(n) == [i \in 1..n |-> PolicyAt(i)]

(* The request bodies: text that is not JSON, or a JSON object whose
   questions and policies properties are each missing or an array. *)
NotJson == [json |-> FALSE, form |-> "none", questions |-> Absent, policies |-> Absent]

JsonBody(q, p) == [json |-> TRUE, form |-> "none", questions |-> q, policies |-> p]

(* A multipart body: without a file, with a PDF file, with a file of another
   type. *)
FormBody(f) == [json |-> FALSE, form |-> f, questions |-> Absent, policies |-> Absent]

FormBodies == {FormBody(f) : f \in {"noFile", "pdf", "notPdf"}}

(* line 39: searchParams.get('endpoint'), null when the parameter is missing *)
Endpoints == {"null", "upload-policies", "upload-questions", "analyze", "Analyze", ""}

Bodies ==
  {NotJson} \cup
  {JsonBody(q, p) :
     q \in {Absent} \cup {Array(QuestionsOf(f)) : f \in QuestionLists},
     p \in {Absent} \cup {Array(PolicyList(n)) : n \in 0..MaxPolicies}}

(* The member text of a reply's JSON object, and what it decodes to. *)
BaseFields ==
  [status |-> Str(Lit("Yes", 3)), confidence |-> Num(9),
   reasoning |-> Str(Lit("reasoning", 17)), citation |-> Str(Lit("sec 4.2", 7))]

MemberTable ==
  [mBase        |-> BaseFields,
   mNo          |-> [BaseFields EXCEPT !.status = Str(Lit("No", 2))],
   mUnknown     |-> [BaseFields EXCEPT !.status = Str(Lit("Unknown", 7))],
   mNoStatus    |-> [BaseFields EXCEPT !.status = Undefined],
   mConfFive    |-> [BaseFields EXCEPT !.confidence = Num(50)],
   mConfNeg     |-> [BaseFields EXCEPT !.confidence = Num(-10)],
   mConfZero    |-> [BaseFields EXCEPT !.confidence = Num(0)],
   mConfOne     |-> [BaseFields EXCEPT !.confidence = Num(10)],
   mConfText    |-> [BaseFields EXCEPT !.confidence = Str(Lit("high", 4))],
   mNoConf      |-> [BaseFields EXCEPT !.confidence = Undefined],
   mNoCitation  |-> [BaseFields EXCEPT !.citation = Undefined],
   mEmptyCitation |-> [BaseFields EXCEPT !.citation = Str(<<>>)]]

MemberText(m) == Lit(m, 60)

ObjectText(m) == LBrace \o MemberText(m) \o RBrace

Prose(k) == Lit("prose", k)

NullText == Lit("null", 4)

NumberText == Lit("42", 2)

StringText == Lit("\"fine\"", 6)

ArrayText == Lit("[1]", 3)

(* The texts a backend reply may carry. *)
Replies ==
  {ObjectText(m) : m \in DOMAIN MemberTable} \cup
  {Prose(11) \o ObjectText("mBase") \o Prose(16),
   ObjectText("mBase") \o Prose(5) \o RBrace,
   LBrace \o Prose(5) \o RBrace \o ObjectText("mBase"),
   LBrace \o Prose(5) \o RBrace,
   Prose(21), Prose(250),
   NullText, NumberText, StringText, ArrayText}

(* What the backend does with one request (lines 13-30). *)
Behaviour(k, t) == [kind |-> k, text |-> t]

Behaviours ==
  {Behaviour(k, <<>>) :
     k \in {"networkError", "httpError", "invalidJson", "noCandidates",
            "emptyCandidates", "noText"}} \cup
  {Behaviour("text", t) : t \in Replies \cup {<<>>}}

(* ------------------------------ callGemini ----------------------------- *)

NoResponseGenerated == Lit("No response generated", 21)

Threw == [threw |-> TRUE, text |-> <<>>]

Returned(t) == [threw |-> FALSE, text |-> t]

(* line 9 *)
KeyMissing(key) == ~key

(* lines 25-27 *)
ResponseNotOk(b) == b.kind = "httpError"

(* lines 13-30, once the request has an outcome b *)
callGemini(b) ==
  CASE b.kind = "networkError" -> Threw
    [] ResponseNotOk(b) -> Threw
    [] b.kind = "invalidJson" -> Threw
    [] b.kind = "noCandidates" -> Threw
    [] b.kind \in {"emptyCandidates", "noText"} -> Returned(NoResponseGenerated)
    [] OTHER -> Returned(IF b.text = <<>> THEN NoResponseGenerated ELSE b.text)

(* ---------------------------- response parser -------------------------- *)

SyntaxError == [ok |-> FALSE, v |-> Prim(Undefined)]

Parsed(v) == [ok |-> TRUE, v |-> v]

(* JSON.parse on the texts of the model *)
JSONParse(s) ==
  CASE s = NullText -> Parsed(Prim(Null))
    [] s = NumberText -> Parsed(Prim(Num(420)))
    [] s = StringText -> Parsed(Prim(Str(Lit("fine", 4))))
    [] s = ArrayText -> Parsed(Obj(NoFields))
    [] s = LBrace \o RBrace -> Parsed(Obj(NoFields))
    [] \E m \in DOMAIN MemberTable : s = ObjectText(m) ->
         Parsed(Obj(MemberTable[CHOOSE m \in DOMAIN MemberTable : s = ObjectText(m)]))
    [] OTHER -> SyntaxError

Opens(s) == {i \in DOMAIN s : s[i].ch = "{"}

Closes(s) == {i \in DOMAIN s : s[i].ch = "}"}

(* aiResponse.match(/\{[\s\S]*\}/): from the first "{" to the last "}" *)
jsonMatch(aiResponse) ==
  IF Opens(aiResponse) # {} /\ Closes(aiResponse) # {}
     /\ SetMin(Opens(aiResponse)) < SetMax(Closes(aiResponse))
  THEN [found |-> TRUE,
        str |-> SubSeq(aiResponse, SetMin(Opens(aiResponse)), SetMax(Closes(aiResponse)))]
  ELSE [found |-> FALSE, str |-> <<>>]

(* line 240 *)
jsonStr(aiResponse) ==
  IF jsonMatch(aiResponse).found THEN jsonMatch(aiResponse).str ELSE aiResponse

(* lines 244-249 *)
FallbackVerdict(aiResponse) ==
  Obj([status |-> Str(Lit("Maybe", 5)),
       confidence |-> Num(5),
       reasoning |-> Str(Lit("AI analysis completed but response format was unclear", 53)),
       citation |-> Str(Substring0(aiResponse, 200))])

(* lines 236-250 *)
analysisResult(aiResponse) ==
  IF JSONParse(jsonStr(aiResponse)).ok
  THEN JSONParse(jsonStr(aiResponse)).v
  ELSE FallbackVerdict(aiResponse)

(* --------------------------- result normalizer ------------------------- *)

Maybe == Str(Lit("Maybe", 5))

(* line 256 *)
Status(ar) == OrElse(Get(ar, "status"), Maybe)

(* line 257 *)
Confidence(ar) ==
  MathMax(Num(0), MathMin(Num(10), OrElse(Get(ar, "confidence"), Num(5))))

(* the file name taken from the last policy of the list *)
LastFileName(policies) ==
  OrElse(IF Len(policies) >= 1 THEN Str(policies[Len(policies)].name) ELSE Undefined,
         Str(Lit("policy.pdf", 10)))

(* line 261: policies[0]?.name || 'policy.pdf' *)
FileName(policies) ==
  OrElse(IF Len(policies) >= 1 THEN Str(policies[1].name) ELSE Undefined,
         Str(Lit("policy.pdf", 10)))

(* a result built with an empty citation list *)
NoCitations(ar, policies) == <<>>

(* lines 258-263 *)
Citations(ar, policies) ==
  <<[text |-> OrElse(Get(ar, "citation"), Str(Lit("No specific citation provided", 29))),
     fileName |-> FileName(policies),
     relevanceScore |-> OrElse(Get(ar, "confidence"), Num(5))]>>

(* lines 252-266 *)
Result(question, policies, ar) ==
  [questionId |-> question.id,
   question |-> question.text,
   status |-> Status(ar),
   confidence |-> Confidence(ar),
   citations |-> Citations(ar, policies),
   reasoning |-> Get(ar, "reasoning")]

(* lines 276-290 *)
ErrorResult(question) ==
  [questionId |-> question.id,
   question |-> question.text,
   status |-> Maybe,
   confidence |-> Num(5),
   citations |-> <<[text |-> Str(Lit("Analysis failed - please try again", 34)),
                    fileName |-> Str(Lit("error", 5)),
                    relevanceScore |-> Num(5)]>>,
   reasoning |-> Str(Lit("Analysis failed due to technical error", 38))]

(* the result of a finished question left out of the collection *)
PushLost(rs, r) == rs

(* the result put at the front of the collection *)
PushFront(rs, r) == <<r>> \o rs

(* line 268 *)
Push(rs, r) == Append(rs, r)

(* the catch block without its push: a failed question leaves no result *)
CatchDrop(rs, question) == rs

(* the catch block starting the collection again *)
CatchReset(rs, question) == <<ErrorResult(question)>>

(* lines 273-291: the catch block of the loop body *)
CatchPush(rs, question) == Append(rs, ErrorResult(question))

(* ------------------------------ prompt builder ------------------------- *)

ContextBudget == 8000

Labelled(p) == Lit("[Document: ", 11) \o p.name \o Lit("]\n", 2) \o p.content

(* the budget applied to each labelled document before the join *)
PerDocument(policies) ==
  Join([i \in DOMAIN policies |-> Substring0(Labelled(policies[i]), ContextBudget)],
       Lit("\n\n", 2))

(* lines 207-209 *)
policyContext(policies) ==
  Substring0(Join([i \in DOMAIN policies |-> Labelled(policies[i])], Lit("\n\n", 2)),
             ContextBudget)

NoPrompt == [built |-> FALSE, question |-> <<>>, policyContext |-> <<>>]

(* lines 211-231: the fixed framing around the two parts that vary *)
Prompt(question, policies) ==
  [built |-> TRUE, question |-> question.text, policyContext |-> policyContext(policies)]

(* ------------------------------- responses ----------------------------- *)

(* JSON.stringify writes NaN as null *)
Stringify(v) == IF v.t = "NaN" THEN Null ELSE v

StringifyResult(r) ==
  [r EXCEPT !.status = Stringify(@),
            !.confidence = Stringify(@),
            !.reasoning = Stringify(@),
            !.citations = [i \in DOMAIN @ |->
               [text |-> Stringify(@[i].text),
                fileName |-> Stringify(@[i].fileName),
                relevanceScore |-> Stringify(@[i].relevanceScore)]]]

NoResponse == [status |-> 0, success |-> FALSE, error |-> "", results |-> <<>>, uploaded |-> 0]

ErrorResponse(code, msg) ==
  [status |-> code, success |-> FALSE, error |-> msg, results |-> <<>>, uploaded |-> 0]

(* line 48 *)
UnknownEndpoint == ErrorResponse(400, "Unknown endpoint")

(* lines 76, 116, 120 *)
NoFilesProvided == ErrorResponse(400, "No files provided")

NoFileProvided == ErrorResponse(400, "No file provided")

OnlyPdfAllowed == ErrorResponse(400, "Only PDF files are allowed")

(* lines 104-108 and 155-159: the policies or questions of an upload *)
Uploaded(n) ==
  [status |-> 200, success |-> TRUE, error |-> "", results |-> <<>>, uploaded |-> n]

(* lines 125-153: 3 sample questions and 25 generated ones *)
SampleQuestions == 3 + 25

(* lines 188-191 *)
InvalidInput == ErrorResponse(400, "Questions and policies are required")

(* lines 195-198 *)
BackendUnavailable == ErrorResponse(500, "Google API key not configured")

(* lines 52-55 *)
InternalServerError == ErrorResponse(500, "Internal server error")

(* lines 294-298 *)
Success(rs) ==
  [status |-> 200, success |-> TRUE, error |-> "",
   results |-> [i \in DOMAIN rs |-> StringifyResult(rs[i])], uploaded |-> 0]

(* ------------------------------ the handler ---------------------------- *)

questions == body.questions.items

policies == body.policies.items

(* line 187 *)
MissingInput(b) == b.questions.kind = "absent" \/ b.policies.kind = "absent"

(* the handler without its credential check *)
NoKeyUnchecked(key) == FALSE

(* line 194 *)
NoKey(key) == ~key

(* Where the loop body throws for a reply: in callGemini (line 233), or at
   line 256, which reads a property of a decoded null. *)
ThrowSite(aiResponse, ar) ==
  IF aiResponse.threw THEN "callGemini"
  ELSE IF Throws(ar) THEN "normalize"
  ELSE "none"

(* a try block that ends after the backend call *)
InTryCallOnly(site) == site = "callGemini"

(* lines 205-273: the statements the loop's try block covers *)
InTry(site) == site \in {"callGemini", "normalize"}

(* line 271: setTimeout(resolve, 1000) *)
DelayMs == 1000

(* a loop that ends one element early *)
LoopDoneEarly(i, qs) == i >= Len(qs)

(* line 204: for...of ends when the array has no element left *)
LoopDone(i, qs) == i > Len(qs)

(* the loop staying on the question it has just handled *)
SameQuestion(i) == i

(* line 204: for...of goes to the next element *)
NextQuestion(i) == i + 1

(* a dispatcher whose default case is the analysis handler *)
DefaultToAnalysis(e) ==
  CASE e = "upload-policies" -> "handlePolicyUpload"
    [] e = "upload-questions" -> "handleQuestionUpload"
    [] OTHER -> "handleAnalysis"

(* lines 42-49: the switch on the endpoint *)
HandlerOf(e) ==
  CASE e = "upload-policies" -> "handlePolicyUpload"
    [] e = "upload-questions" -> "handleQuestionUpload"
    [] e = "analyze" -> "handleAnalysis"
    [] OTHER -> "none"

(* lines 39-43 of part_000: the useState initial values *)
PageInitial ==
  [activeTab |-> "upload", policies |-> <<>>, questions |-> <<>>,
   results |-> <<>>, analyzing |-> FALSE]

NotSettled == [kind |-> "none", results |-> <<>>]

(* components.tsx lines 197-200: the useState initial values *)
PolicyUploadInitial == [uploading |-> FALSE, uploadedFiles |-> <<>>]

(* no file *)
NoFile == 0

(* components.tsx lines 359-363 *)
QuestionUploadInitial ==
  [uploading |-> FALSE, uploadedFile |-> NoFile, extractedQuestions |-> <<>>]

(* the browser side before anything happened *)
UiAtRest ==
  /\ page = PageInitial
  /\ fetches = <<>>
  /\ settled = NotSettled
  /\ invocations = 0
  /\ policyUpload = PolicyUploadInitial
  /\ policyFetches = <<>>
  /\ policyStarted = 0
  /\ returned = {}
  /\ removed = {}
  /\ questionUpload = QuestionUploadInitial
  /\ questionFetches = <<>>
  /\ questionStarted = 0

Init ==
  /\ UiAtRest
  /\ GOOGLE_API_KEY \in BOOLEAN
  /\ endpoint \in Endpoints
  /\ handler = "none"
  /\ body \in Bodies \cup FormBodies
  /\ pc = "dispatch"
  /\ idx = 0
  /\ prompt = NoPrompt
  /\ results = <<>>
  /\ response = NoResponse
  /\ calls = <<>>
  /\ clock = 0

Respond(r) ==
  /\ response' = r
  /\ pc' = "responded"

(* lines 38-49: the endpoint names a handler, which POST calls *)
Dispatch ==
  /\ pc = "dispatch"
  /\ HandlerOf(endpoint) # "none"
  /\ handler' = HandlerOf(endpoint)
  /\ pc' = "request"
  /\ UNCHANGED ui
  /\ UNCHANGED <<GOOGLE_API_KEY, endpoint, body, idx, prompt, results, response,
                 calls, clock>>

(* lines 47-48: the default case *)
RejectEndpoint ==
  /\ pc = "dispatch"
  /\ HandlerOf(endpoint) = "none"
  /\ Respond(UnknownEndpoint)
  /\ UNCHANGED ui
  /\ UNCHANGED <<GOOGLE_API_KEY, endpoint, handler, body, idx, prompt, results,
                 calls, clock>>

(* lines 73-109: formData() rejects for a body that is no form, which POST's
   catch answers (lines 52-55); files of another type than PDF are skipped *)
PolicyUploadResponds ==
  /\ pc = "request"
  /\ handler = "handlePolicyUpload"
  /\ Respond(CASE body.form = "none" -> InternalServerError
               [] body.form = "noFile" -> NoFilesProvided
               [] body.form = "pdf" -> Uploaded(1)
               [] OTHER -> Uploaded(0))
  /\ UNCHANGED ui
  /\ UNCHANGED <<GOOGLE_API_KEY, endpoint, handler, body, idx, prompt, results,
                 calls, clock>>

(* lines 115-168 *)
QuestionUploadResponds ==
  /\ pc = "request"
  /\ handler = "handleQuestionUpload"
  /\ Respond(CASE body.form = "none" -> InternalServerError
               [] body.form = "noFile" -> NoFileProvided
               [] body.form = "pdf" -> Uploaded(SampleQuestions)
               [] OTHER -> OnlyPdfAllowed)
  /\ UNCHANGED ui
  /\ UNCHANGED <<GOOGLE_API_KEY, endpoint, handler, body, idx, prompt, results,
                 calls, clock>>

(* line 184: request.json() rejects; POST's catch answers (lines 52-55) *)
RejectBody ==
  /\ pc = "request"
  /\ handler = "handleAnalysis"
  /\ ~body.json
  /\ Respond(InternalServerError)
  /\ UNCHANGED ui
  /\ UNCHANGED <<GOOGLE_API_KEY, endpoint, handler, body, idx, prompt, results, calls, clock>>

(* lines 187-192 *)
RejectInput ==
  /\ pc = "request"
  /\ handler = "handleAnalysis"
  /\ body.json
  /\ MissingInput(body)
  /\ Respond(InvalidInput)
  /\ UNCHANGED ui
  /\ UNCHANGED <<GOOGLE_API_KEY, endpoint, handler, body, idx, prompt, results, calls, clock>>

(* lines 194-199 *)
RejectNoKey ==
  /\ pc = "request"
  /\ handler = "handleAnalysis"
  /\ body.json
  /\ ~MissingInput(body)
  /\ NoKey(GOOGLE_API_KEY)
  /\ Respond(BackendUnavailable)
  /\ UNCHANGED ui
  /\ UNCHANGED <<GOOGLE_API_KEY, endpoint, handler, body, idx, prompt, results, calls, clock>>

(* lines 201-204: the checks passed; enter the loop *)
StartBatch ==
  /\ pc = "request"
  /\ handler = "handleAnalysis"
  /\ body.json
  /\ ~MissingInput(body)
  /\ ~NoKey(GOOGLE_API_KEY)
  /\ results' = <<>>
  /\ idx' = 1
  /\ pc' = "loop"
  /\ UNCHANGED ui
  /\ UNCHANGED <<GOOGLE_API_KEY, endpoint, handler, body, prompt, response, calls, clock>>

(* line 213 reads question.text: a TypeError when the element is null.  The
   catch block then reads question.id (line 274), a second TypeError, which
   leaves handleAnalysis and is answered by POST's catch. *)
NullElement ==
  /\ pc = "loop"
  /\ ~LoopDone(idx, questions)
  /\ questions[idx].isNull
  /\ Respond(InternalServerError)
  /\ UNCHANGED ui
  /\ UNCHANGED <<GOOGLE_API_KEY, endpoint, handler, body, idx, prompt, results, calls, clock>>

(* lines 206-233 with callGemini's lines 8-23: build the prompt and send
   the request; without a key callGemini throws and the catch block runs. *)
CallBackend ==
  /\ pc = "loop"
  /\ ~LoopDone(idx, questions)
  /\ ~questions[idx].isNull
  /\ prompt' = Prompt(questions[idx], policies)
  /\ IF KeyMissing(GOOGLE_API_KEY)
     THEN /\ results' = CatchPush(results, questions[idx])
          /\ idx' = NextQuestion(idx)
          /\ UNCHANGED <<pc, calls>>
     ELSE /\ calls' = Append(calls, [q |-> idx, done |-> FALSE, at |-> clock,
                                     b |-> Behaviour("pending", <<>>)])
          /\ pc' = "calling"
          /\ UNCHANGED <<idx, results>>
  /\ UNCHANGED ui
  /\ UNCHANGED <<GOOGLE_API_KEY, endpoint, handler, body, response, clock>>

(* lines 25-30 and 233-268, or the catch block (lines 273-291): the request
   ends as b; the reply is parsed, normalized and pushed.  A throw outside
   the try block would leave handleAnalysis for POST's catch (lines 52-55). *)
BackendResponds(b) ==
  /\ pc = "calling"
  /\ calls' = [calls EXCEPT ![Len(calls)] = [@ EXCEPT !.done = TRUE, !.b = b]]
  /\ LET aiResponse == callGemini(b)
         ar == analysisResult(aiResponse.text)
         site == ThrowSite(aiResponse, ar)
     IN CASE site = "none" ->
               /\ results' = Push(results, Result(questions[idx], policies, ar))
               /\ pc' = "pacing"
               /\ UNCHANGED <<idx, response>>
          [] site # "none" /\ InTry(site) ->
               /\ results' = CatchPush(results, questions[idx])
               /\ idx' = NextQuestion(idx)
               /\ pc' = "loop"
               /\ UNCHANGED response
          [] OTHER ->
               /\ Respond(InternalServerError)
               /\ UNCHANGED <<idx, results>>
  /\ UNCHANGED ui
  /\ UNCHANGED <<GOOGLE_API_KEY, endpoint, handler, body, prompt, clock>>

(* line 271: the delay ends, and the loop goes to the next question *)
Pacing ==
  /\ pc = "pacing"
  /\ clock' = clock + DelayMs
  /\ idx' = NextQuestion(idx)
  /\ pc' = "loop"
  /\ UNCHANGED ui
  /\ UNCHANGED <<GOOGLE_API_KEY, endpoint, handler, body, prompt, results, response, calls>>

(* lines 294-298 *)
ReturnResults ==
  /\ pc = "loop"
  /\ LoopDone(idx, questions)
  /\ Respond(Success(results))
  /\ UNCHANGED ui
  /\ UNCHANGED <<GOOGLE_API_KEY, endpoint, handler, body, idx, prompt, results, calls, clock>>

Next ==
  \/ Dispatch
  \/ RejectEndpoint
  \/ PolicyUploadResponds
  \/ QuestionUploadResponds
  \/ RejectBody
  \/ RejectInput
  \/ RejectNoKey
  \/ StartBatch
  \/ NullElement
  \/ CallBackend
  \/ \E b \in Behaviours : BackendResponds(b)
  \/ Pacing
  \/ ReturnResults

Spec == Init /\ [][Next]_vars

(* ------------------- the page component (part_000) --------------------- *)

(* the server side as the page specifications keep it: out of the picture *)
ServerAtRest ==
  /\ GOOGLE_API_KEY = TRUE
  /\ endpoint = "analyze"
  /\ handler = "none"
  /\ body = NotJson
  /\ pc = "idle"
  /\ idx = 0
  /\ prompt = NoPrompt
  /\ results = <<>>
  /\ response = NoResponse
  /\ calls = <<>>
  /\ clock = 0

Tabs == {"upload", "analysis", "results"}

(* the lists PolicyUpload and QuestionUpload hand to onUploadComplete *)
PolicyLists == {<<>>, <<1>>, <<1, 2>>}

QuestionLists2 == {<<>>, <<1>>}

(* the results member of an analyze response; "undefined" when it has none *)
ResultLists == {<<>>, <<"r1">>, <<"r2">>}

Outcome(k, rs) == [kind |-> k, results |-> rs]

(* how an analyze request ends: an OK response with or without results, an
   OK response whose body is no JSON, a non-OK response, a rejected fetch *)
Outcomes ==
  {Outcome("ok", rs) : rs \in ResultLists} \cup
  {Outcome(k, <<>>) : k \in {"okNoResults", "okNotJson", "notOk", "networkError"}}

(* lines 52-54 *)
handlePolicyUpload(uploadedPolicies) ==
  /\ page' = [page EXCEPT !.policies = uploadedPolicies]
  /\ UNCHANGED <<fetches, settled, invocations>>
  /\ UNCHANGED <<server, uploadVars>>

(* lines 57-59 *)
handleQuestionUpload(uploadedQuestions) ==
  /\ page' = [page EXCEPT !.questions = uploadedQuestions]
  /\ UNCHANGED <<fetches, settled, invocations>>
  /\ UNCHANGED <<server, uploadVars>>

(* lines 128, 231, 265: a tab or a "back" button is clicked; line 190: the
   "Proceed to Analysis" button is disabled while a list is empty *)
SelectTab(t) ==
  /\ t # page.activeTab
  /\ page' = [page EXCEPT !.activeTab = t]
  /\ UNCHANGED <<fetches, settled, invocations>>
  /\ UNCHANGED <<server, uploadVars>>

(* a guard that lets every call through *)
NeverEmpty(p) == FALSE

(* line 63: !policies.length || !questions.length *)
EmptyInput(p) == p.policies = <<>> \/ p.questions = <<>>

(* a Start button that stays enabled during an analysis *)
DisabledByListsOnly(p) == p.policies = <<>> \/ p.questions = <<>>

(* line 237: the disabled prop of the Start Analysis button *)
Disabled(p) == p.analyzing \/ p.policies = <<>> \/ p.questions = <<>>

(* lines 62-79: the guard, setAnalyzing(true) and the fetch *)
runAnalysis ==
  /\ invocations < MaxInvocations
  /\ invocations' = invocations + 1
  /\ IF EmptyInput(page)
     THEN UNCHANGED <<page, fetches>>
     ELSE /\ page' = [page EXCEPT !.analyzing = TRUE]
          /\ fetches' = Append(fetches, [policies |-> page.policies,
                                          questions |-> page.questions])
  /\ UNCHANGED settled
  /\ UNCHANGED <<server, uploadVars>>

(* lines 235-241: a click on the Start Analysis button, which is rendered
   in the analysis tab *)
ClickStartAnalysis ==
  /\ page.activeTab = "analysis"
  /\ ~Disabled(page)
  /\ runAnalysis

(* an OK test that only a rejected fetch fails *)
AnyResponseOk(o) == o.kind # "networkError"

(* line 81: response.ok *)
ResponseOk(o) == o.kind \in {"ok", "okNoResults", "okNotJson"}

(* the state left as it is when the request has ended *)
FinallyMissing(p) == p

(* lines 91-93 *)
Finally(p) == [p EXCEPT !.analyzing = FALSE]

Remove(seq, i) == [j \in 1..(Len(seq) - 1) |-> IF j < i THEN seq[j] ELSE seq[j + 1]]

(* lines 81-93: the request i ends as o.  response.json() rejects for a body
   that is no JSON (line 82), which the catch block takes like a failure. *)
AnalyzeSettles(i, o) ==
  /\ i \in DOMAIN fetches
  /\ fetches' = Remove(fetches, i)
  /\ settled' = o
  /\ page' = Finally(IF ResponseOk(o) /\ o.kind # "okNotJson"
                     THEN [page EXCEPT !.results = o.results,
                                       !.activeTab = "results"]
                     ELSE page)
  /\ UNCHANGED invocations
  /\ UNCHANGED <<server, uploadVars>>

PageInit == UiAtRest /\ ServerAtRest

(* the page as its user drives it *)
PageNext ==
  \/ \E ps \in PolicyLists : handlePolicyUpload(ps)
  \/ \E qs \in QuestionLists2 : handleQuestionUpload(qs)
  \/ \E t \in Tabs : SelectTab(t)
  \/ ClickStartAnalysis
  \/ \E i \in 1..MaxInvocations : \E o \in Outcomes : AnalyzeSettles(i, o)

PageSpec == PageInit /\ [][PageNext]_vars

(* runAnalysis called in any state of the page, whatever the button shows *)
RunNext ==
  \/ \E ps \in PolicyLists : handlePolicyUpload(ps)
  \/ \E qs \in QuestionLists2 : handleQuestionUpload(qs)
  \/ \E t \in Tabs : SelectTab(t)
  \/ runAnalysis
  \/ \E i \in 1..MaxInvocations : \E o \in Outcomes : AnalyzeSettles(i, o)

RunSpec == PageInit /\ [][RunNext]_vars

(* ------------------- PolicyUpload (components.tsx) --------------------- *)

Range(seq) == {seq[i] : i \in DOMAIN seq}

Without(seq, x) == SelectSeq(seq, LAMBDA y : y # x)

(* how an upload request ends: an OK response with the uploaded items, an
   OK response without any, and a failure (a non-OK response, a rejected
   fetch, a body that is no JSON) *)
UploadOutcomes == {"ok", "okEmpty", "failed"}

(* lines 212-230 and 246-264: a drop or a file selection calls processFiles,
   whose closure holds the uploadedFiles of the render it was made in *)
processFiles ==
  /\ policyStarted < MaxUploads
  /\ policyStarted' = policyStarted + 1
  /\ policyUpload' = [policyUpload EXCEPT !.uploading = TRUE]
  /\ policyFetches' = Append(policyFetches,
                             [file |-> policyStarted + 1,
                              uploadedFiles |-> policyUpload.uploadedFiles])
  /\ UNCHANGED <<page, returned, removed>>
  /\ UNCHANGED <<server, fetches, settled, invocations, questionVars>>

(* lines 231-243: the response of upload i arrives *)
PolicyUploadSettles(i, o) ==
  /\ i \in DOMAIN policyFetches
  /\ policyFetches' = Remove(policyFetches, i)
  /\ LET call == policyFetches[i]
         newPolicies == IF o = "ok" THEN <<call.file>> ELSE <<>>
         updatedPolicies == call.uploadedFiles \o newPolicies
     IN /\ returned' = returned \cup Range(newPolicies)
        /\ IF o = "failed"
           THEN /\ policyUpload' = [policyUpload EXCEPT !.uploading = FALSE]
                /\ UNCHANGED page
           ELSE /\ policyUpload' = [uploading |-> FALSE,
                                    uploadedFiles |-> updatedPolicies]
                /\ page' = [page EXCEPT !.policies = updatedPolicies]
  /\ UNCHANGED <<policyStarted, removed>>
  /\ UNCHANGED <<server, fetches, settled, invocations, questionVars>>

(* lines 266-270, called by the remove button of a listed file (line 338) *)
removeFile(id) ==
  /\ id \in Range(policyUpload.uploadedFiles)
  /\ LET filtered == Without(policyUpload.uploadedFiles, id)
     IN /\ policyUpload' = [policyUpload EXCEPT !.uploadedFiles = filtered]
        /\ page' = [page EXCEPT !.policies = filtered]
  /\ removed' = removed \cup {id}
  /\ UNCHANGED <<policyFetches, policyStarted, returned>>
  /\ UNCHANGED <<server, fetches, settled, invocations, questionVars>>

PolicyNext ==
  \/ processFiles
  \/ \E i \in 1..MaxUploads : \E o \in UploadOutcomes : PolicyUploadSettles(i, o)
  \/ \E id \in 1..MaxUploads : removeFile(id)

PolicySpec == PageInit /\ [][PolicyNext]_vars

(* ------------------ QuestionUpload (components.tsx) --------------------- *)

(* the questions extracted from file f *)
QuestionsFrom(f) == <<f>>

(* lines 375-390, called by handleDrop and handleFileSelect *)
processFile ==
  /\ questionStarted < MaxUploads
  /\ questionStarted' = questionStarted + 1
  /\ questionUpload' = [questionUpload EXCEPT !.uploading = TRUE,
                                              !.uploadedFile = questionStarted + 1]
  /\ questionFetches' = Append(questionFetches, [file |-> questionStarted + 1])
  /\ UNCHANGED page
  /\ UNCHANGED <<server, fetches, settled, invocations, policyVars>>

(* lines 392-405: the response of upload i arrives *)
QuestionUploadSettles(i, o) ==
  /\ i \in DOMAIN questionFetches
  /\ questionFetches' = Remove(questionFetches, i)
  /\ LET uploadedQuestions == IF o = "ok" THEN QuestionsFrom(questionFetches[i].file)
                              ELSE <<>>
     IN IF o = "failed"
        THEN /\ questionUpload' = [questionUpload EXCEPT !.uploading = FALSE]
             /\ UNCHANGED page
        ELSE /\ questionUpload' = [questionUpload EXCEPT
                                     !.uploading = FALSE,
                                     !.extractedQuestions = uploadedQuestions]
             /\ page' = [page EXCEPT !.questions = uploadedQuestions]
  /\ UNCHANGED questionStarted
  /\ UNCHANGED <<server, fetches, settled, invocations, policyVars>>

QuestionNext ==
  \/ processFile
  \/ \E i \in 1..MaxUploads : \E o \in UploadOutcomes : QuestionUploadSettles(i, o)

QuestionSpec == PageInit /\ [][QuestionNext]_vars

(* ------------------ AnalysisResults (components.tsx) -------------------- *)

(* lines 576-579: results.reduce counts the results of each status *)
statusCounts(rs) ==
  [s \in {rs[i].status : i \in DOMAIN rs} |->
     Cardinality({i \in DOMAIN rs : rs[i].status = s})]

(* lines 598, 606, 614: statusCounts.Yes || 0 *)
Displayed(counts, s) == IF s \in DOMAIN counts THEN counts[s] ELSE 0

(* ================================ claims =============================== *)

Responded == pc = "responded"

InLoop == pc \in {"loop", "calling", "pacing"}

(* the body is JSON and every element of its question list is an
   AuditQuestion object *)
TypedBatch ==
  /\ endpoint = "analyze"
  /\ body.json
  /\ \A i \in DOMAIN questions : ~questions[i].isNull

NonEmpty(list) == list.kind = "array" /\ list.items # <<>>

EmptyOrAbsent(list) == list.kind = "absent" \/ list.items = <<>>

Returned200 ==
  Responded /\ handler = "handleAnalysis" /\ response.status = 200 /\ response.success

TransportFault(b) == b.kind \in {"networkError", "httpError"}

TechnicalError == Str(Lit("Analysis failed due to technical error", 38))

(* the result question q gets from backend behaviour b in a batch of its own *)
Alone(q, b) ==
  LET ar == analysisResult(callGemini(b).text)
  IN StringifyResult(IF ThrowSite(callGemini(b), ar) = "none"
                     THEN Result(questions[q], policies, ar)
                     ELSE ErrorResult(questions[q]))

(* C1: a batch with a non-empty list of questions, a non-empty list of
   policies and a credential returns exactly one result per question, and
   each question's id is the questionId of exactly one result, whatever the
   backend did for each question. *)
C1_Applies ==
  /\ TypedBatch
  /\ NonEmpty(body.questions)
  /\ NonEmpty(body.policies)
  /\ GOOGLE_API_KEY

C1_OneResultPerQuestion ==
  (Responded /\ C1_Applies) =>
     /\ Returned200
     /\ Len(response.results) = Len(questions)
     /\ \A i \in DOMAIN questions :
          Cardinality({j \in DOMAIN response.results :
                         response.results[j].questionId = questions[i].id}) = 1
     /\ \A j \in DOMAIN response.results :
          \E i \in DOMAIN questions : response.results[j].questionId = questions[i].id

C1_Witness ==
  /\ Responded /\ C1_Applies
  /\ Len(questions) >= 2
  /\ \E k \in DOMAIN calls : calls[k].b.kind = "httpError"
  /\ \E k \in DOMAIN calls : calls[k].b = Behaviour("text", Prose(21))
  /\ Len(response.results) = Len(questions)

(* C2: when the backend call of one question ends in a transport fault, the
   batch still returns one result per question; the faulting question's
   result is Maybe / 0.5 / "technical error", and every other question's
   result is the one its own reply gives: a well-formed Yes / 0.9 /
   "sec 4.2" reply stays Yes / 0.9 / "sec 4.2" with the reply's rationale,
   and no result depends on another question's backend behaviour. *)
C2_FailureIsolation ==
  (Responded /\ TypedBatch /\ \E k \in DOMAIN calls : TransportFault(calls[k].b)) =>
     /\ Returned200
     /\ Len(response.results) = Len(questions)
     /\ Len(calls) = Len(questions)
     /\ \A k \in DOMAIN calls :
          LET r == response.results[calls[k].q]
          IN /\ r.questionId = questions[calls[k].q].id
             /\ TransportFault(calls[k].b) =>
                  /\ r.status = Maybe
                  /\ r.confidence = Num(5)
                  /\ r.reasoning = TechnicalError
             /\ calls[k].b = Behaviour("text", ObjectText("mBase")) =>
                  /\ r.status = Str(Lit("Yes", 3))
                  /\ r.confidence = Num(9)
                  /\ r.citations[1].text = Str(Lit("sec 4.2", 7))
                  /\ r.reasoning = BaseFields.reasoning
             /\ calls[k].b = Behaviour("text", Prose(21)) =>
                  /\ r.reasoning # TechnicalError
                  /\ r.citations[1].text = Str(Prose(21))
             /\ ~TransportFault(calls[k].b) => r = Alone(calls[k].q, calls[k].b)

C2_Witness ==
  /\ Returned200 /\ TypedBatch
  /\ Len(questions) = 2
  /\ Len(calls) = 2
  /\ Len(response.results) = 2
  /\ calls[2].b.kind = "networkError"
  /\ calls[1].b = Behaviour("text", ObjectText("mBase"))
  /\ response.results[1].status = Str(Lit("Yes", 3))
  /\ response.results[2].reasoning = TechnicalError

(* C3: for a JSON body whose questions are AuditQuestion objects, the
   operation ends in InvalidInput, in BackendUnavailable or in success with
   one result per question; and once the two checks have passed (the loop
   is entered) it can only go on or end in success with one result per
   question, whatever the backend does. *)
C3_OnlyWholeBatchFailures ==
  /\ []((Responded /\ TypedBatch) =>
          \/ response = InvalidInput
          \/ response = BackendUnavailable
          \/ (Returned200 /\ Len(response.results) = Len(questions)))
  /\ [][(InLoop /\ TypedBatch) =>
          \/ InLoop'
          \/ /\ pc' = "responded"
             /\ response'.status = 200
             /\ response'.success
             /\ Len(response'.results) = Len(questions)]_vars

C3_Witness ==
  /\ Returned200 /\ TypedBatch
  /\ Len(questions) = 2
  /\ \E k \in DOMAIN calls : calls[k].b = Behaviour("text", NullText)
  /\ \E k \in DOMAIN calls : calls[k].b.kind = "invalidJson"
  /\ Len(response.results) = 2

(* C4: whenever the question list or the policy list is empty or absent,
   the operation fails with InvalidInput, the backend is not invoked and no
   result is produced (stated for a configured credential). *)
C4_EmptyOrAbsentRejected ==
  (endpoint = "analyze" /\ body.json /\ GOOGLE_API_KEY
     /\ (EmptyOrAbsent(body.questions) \/ EmptyOrAbsent(body.policies))) =>
     /\ calls = <<>>
     /\ results = <<>>
     /\ ~prompt.built
     /\ Responded => response = InvalidInput

(* C5: without a credential no prompt is built, the backend is never
   invoked and no result is produced; for any question and policy lists the
   operation ends in BackendUnavailable. *)
C5_NoKeyFailsUpFront ==
  ~GOOGLE_API_KEY =>
     /\ calls = <<>>
     /\ results = <<>>
     /\ ~prompt.built
     /\ ~InLoop
     /\ (Responded /\ endpoint = "analyze" /\ body.json /\ ~MissingInput(body)) =>
          response = BackendUnavailable

C5_Witness ==
  /\ ~GOOGLE_API_KEY
  /\ Responded
  /\ endpoint = "analyze"
  /\ NonEmpty(body.questions) /\ NonEmpty(body.policies)
  /\ response = BackendUnavailable

(* the result returned for the question of call k *)
ReturnedFor(k) == response.results[calls[k].q]

IsText(b) == b.kind = "text" /\ b.text # <<>>

IsPayload(b) == IsText(b) /\ \E m \in DOMAIN MemberTable : b.text = ObjectText(m)

Decoded(b) == MemberTable[CHOOSE m \in DOMAIN MemberTable : b.text = ObjectText(m)]

StatusEnum == {Str(Lit("Yes", 3)), Str(Lit("No", 2)), Maybe}

(* C6: every returned result has status Yes, No or Maybe, and a decoded
   status that is missing or another value comes back as Maybe. *)
C6_StatusInEnum ==
  (Returned200 /\ C1_Applies) =>
     /\ \A j \in DOMAIN response.results : response.results[j].status \in StatusEnum
     /\ \A k \in DOMAIN calls :
          (IsPayload(calls[k].b) /\ Decoded(calls[k].b).status \notin StatusEnum) =>
             ReturnedFor(k).status = Maybe

(* C7: every returned result has a numeric confidence in [0,1]; a decoded
   confidence above 1 comes back as 1, one below 0 as 0, and an absent or
   non-numeric one as 0.5. *)
C7_ConfidenceInRange ==
  (Returned200 /\ C1_Applies) =>
     /\ \A j \in DOMAIN response.results :
          /\ response.results[j].confidence.t = "number"
          /\ response.results[j].confidence.n \in 0..10
     /\ \A k \in DOMAIN calls :
          IsPayload(calls[k].b) =>
             LET c == Decoded(calls[k].b).confidence
             IN /\ (c.t = "number" /\ c.n > 10) => ReturnedFor(k).confidence = Num(10)
                /\ (c.t = "number" /\ c.n < 0) => ReturnedFor(k).confidence = Num(0)
                /\ c.t # "number" => ReturnedFor(k).confidence = Num(5)

(* the index of the "}" that closes the "{" at depth d, scanning from i *)
RECURSIVE MatchClose(_, _, _)
MatchClose(t, i, d) ==
  IF i > Len(t) THEN 0
  ELSE IF t[i].ch = "{" THEN MatchClose(t, i + 1, d + 1)
  ELSE IF t[i].ch = "}"
       THEN IF d = 1 THEN i ELSE MatchClose(t, i + 1, d - 1)
       ELSE MatchClose(t, i + 1, d)

Balanced(t) == {i \in Opens(t) : MatchClose(t, i + 1, 1) # 0}

FirstBalancedSpan(t) ==
  SubSeq(t, SetMin(Balanced(t)), MatchClose(t, SetMin(Balanced(t)) + 1, 1))

(* C8: when the first balanced {...} span of a reply is the well-formed
   payload Yes / 0.9 / "sec 4.2", whatever prose surrounds it (prose with
   "{" or "}" included), the result has that status, confidence and
   citation. *)
C8_EmbeddedPayloadExtracted ==
  (Returned200 /\ C1_Applies) =>
     \A k \in DOMAIN calls :
        (IsText(calls[k].b) /\ Balanced(calls[k].b.text) # {}
           /\ FirstBalancedSpan(calls[k].b.text) = ObjectText("mBase")) =>
           /\ ReturnedFor(k).status = BaseFields.status
           /\ ReturnedFor(k).confidence = BaseFields.confidence
           /\ ReturnedFor(k).citations[1].text = BaseFields.citation

(* c holds the leading characters of t *)
RECURSIVE IsPrefix(_, _)
IsPrefix(c, t) ==
  \/ c = <<>>
  \/ /\ t # <<>>
     /\ Head(c).ch = Head(t).ch
     /\ \/ Head(c).n = Head(t).n /\ IsPrefix(Tail(c), Tail(t))
        \/ Head(c).n < Head(t).n /\ Tail(c) = <<>>

FirstChars(c, t, k) ==
  /\ IsPrefix(c, t)
  /\ StrLen(c) = IF StrLen(t) <= k THEN StrLen(t) ELSE k

(* C9: a reply that holds no JSON object (no "{" at all: prose, a bare
   number, a quoted string, an array, null) gives status Maybe, confidence
   0.5 and a citation that is the first 200 characters of the reply. *)
C9_NoObjectFallsBack ==
  (Returned200 /\ C1_Applies) =>
     \A k \in DOMAIN calls :
        (IsText(calls[k].b) /\ Opens(calls[k].b.text) = {}) =>
           /\ ReturnedFor(k).status = Maybe
           /\ ReturnedFor(k).confidence = Num(5)
           /\ ReturnedFor(k).citations[1].text.t = "string"
           /\ FirstChars(ReturnedFor(k).citations[1].text.s, calls[k].b.text, 200)

FormatUnclear == Str(Lit("AI analysis completed but response format was unclear", 53))

(* no {...} span in the reply, or a span that JSON.parse rejects *)
DecodingFailure(t) ==
  \/ ~jsonMatch(t).found
  \/ ~JSONParse(jsonMatch(t).str).ok

(* C10: after a decoding failure the question's result is the parser's
   degraded verdict (Maybe, 0.5, "response format was unclear", a citation
   that is a prefix of the reply of at most 200 characters), never the
   orchestrator's technical-error result. *)
C10_DecodingFailureStaysInParser ==
  (Returned200 /\ C1_Applies) =>
     \A k \in DOMAIN calls :
        (IsText(calls[k].b) /\ DecodingFailure(calls[k].b.text)) =>
           /\ ReturnedFor(k).reasoning # TechnicalError
           /\ ReturnedFor(k).reasoning = FormatUnclear
           /\ ReturnedFor(k).status = Maybe
           /\ ReturnedFor(k).confidence = Num(5)
           /\ ReturnedFor(k).citations[1].text.t = "string"
           /\ IsPrefix(ReturnedFor(k).citations[1].text.s, calls[k].b.text)
           /\ StrLen(ReturnedFor(k).citations[1].text.s) <= 200

(* the labelled documents of ps, in order, with a blank line between them *)
RECURSIVE Concatenation(_)
Concatenation(ps) ==
  IF ps = <<>> THEN <<>>
  ELSE IF Len(ps) = 1 THEN Labelled(ps[1])
  ELSE Labelled(ps[1]) \o Lit("\n\n", 2) \o Concatenation(Tail(ps))

(* C11: the policy context of every prompt is at most 8000 characters long
   and is the leading part of the concatenation of all labelled documents
   in input order: the whole concatenation when it fits, its first 8000
   characters otherwise. *)
C11_ContextIsPrefixOfConcatenation ==
  prompt.built =>
     /\ StrLen(prompt.policyContext) <= 8000
     /\ FirstChars(prompt.policyContext, Concatenation(policies), 8000)

(* two documents whose concatenation is over the budget; the context ends
   inside the second one *)
C11_Witness ==
  /\ prompt.built
  /\ Len(policies) = 2
  /\ StrLen(Concatenation(policies)) > 8000
  /\ StrLen(prompt.policyContext) = 8000
  /\ StrLen(Labelled(policies[1])) + 2 < 8000

(* C12: between every two successive backend calls of one batch the full
   delay of 1 second elapses, whether the earlier call succeeded, failed or
   returned a malformed reply. *)
C12_DelayBetweenCalls ==
  C1_Applies =>
     \A k \in DOMAIN calls :
        k > 1 => calls[k].at - calls[k - 1].at >= 1000

(* the backend calls that have been started and have not come back *)
InFlight == {k \in DOMAIN calls : ~calls[k].done}

(* C13: at most one backend call is in flight at any time, and while the
   call of a question is in flight every earlier question already has its
   result in the result collection (and no later one has). *)
C13_StrictlySequential ==
  /\ Cardinality(InFlight) <= 1
  /\ \A k \in InFlight :
        /\ k = Len(calls)
        /\ Len(results) = calls[k].q - 1
        /\ \A j \in 1..(calls[k].q - 1) : results[j].questionId = questions[j].id

(* the call of the second question is in flight after the first came back *)
C13_Witness ==
  /\ Len(calls) = 2
  /\ calls[1].done
  /\ calls[2].q = 2
  /\ InFlight = {2}
  /\ Len(results) = 1

(* a backend response that arrived with an OK status and a JSON body, and
   that holds no text: no candidates, or a candidate without text *)
NoExtractableText(b) ==
  \/ b.kind \in {"noCandidates", "emptyCandidates", "noText"}
  \/ b.kind = "text" /\ b.text = <<>>

(* C14: when the backend call completes and yields no extractable text,
   callGemini fails: it returns no text to the loop, and the question's
   result is the one the loop gives a failed call. *)
C14_EmptyReplyFails ==
  C1_Applies =>
     \A k \in DOMAIN calls :
        (calls[k].done /\ NoExtractableText(calls[k].b)) =>
           /\ callGemini(calls[k].b).threw
           /\ Len(results) >= calls[k].q =>
                 results[calls[k].q].reasoning = TechnicalError

(* the request passed the checks of lines 187 and 194 *)
PassedChecks ==
  /\ TypedBatch
  /\ body.questions.kind = "array"
  /\ body.policies.kind = "array"
  /\ GOOGLE_API_KEY

(* C15: in a batch that passes the precondition checks the k-th backend
   call is the call of the k-th question (no question is called twice,
   whatever its call did), the returned result of a question is the one its
   own call gives, and the batch ends with as many calls as questions. *)
C15_OneCallPerQuestion ==
  PassedChecks =>
     /\ \A k \in DOMAIN calls : calls[k].q = k
     /\ Len(calls) <= Len(questions)
     /\ Returned200 =>
           /\ Len(calls) = Len(questions)
           /\ \A k \in DOMAIN calls : response.results[k] = Alone(k, calls[k].b)

(* a finished batch of two questions: one call failed, one reply was prose *)
C15_Witness ==
  /\ PassedChecks
  /\ Returned200
  /\ Len(questions) = 2
  /\ Len(calls) = 2
  /\ calls[1].b.kind = "httpError"
  /\ calls[2].b = Behaviour("text", Prose(21))

(* C16: every result of the returned collection, whether built from a
   decoded payload, from the parser's fallback or by the catch block, has a
   citation list of exactly one citation. *)
C16_ExactlyOneCitation ==
  /\ \A j \in DOMAIN results : Len(results[j].citations) = 1
  /\ Returned200 =>
        \A j \in DOMAIN response.results : Len(response.results[j].citations) = 1

(* a returned collection with a parse-fallback result and a technical-error
   result *)
C16_Witness ==
  /\ Returned200
  /\ Len(response.results) = 2
  /\ response.results[1].reasoning = FormatUnclear
  /\ response.results[2].reasoning = TechnicalError
  /\ Len(response.results[1].citations) = 1
  /\ Len(response.results[2].citations) = 1

(* C17: every citation of every returned result has a relevance score that
   is a number from 0 to 1, also when the decoded confidence is out of
   range (5, a negative number). *)
C17_RelevanceScoreInRange ==
  (Returned200 /\ C1_Applies) =>
     \A j \in DOMAIN response.results :
        \A c \in DOMAIN response.results[j].citations :
           LET score == response.results[j].citations[c].relevanceScore
           IN score.t = "number" /\ 0 <= score.n /\ score.n <= 10

(* a body that is not JSON, or a JSON body without questions or policies *)
MalformedBody ==
  \/ ~body.json
  \/ body.questions.kind = "absent"
  \/ body.policies.kind = "absent"

(* C18: every malformed request body is answered with a client error
   (4xx), never with a server error. *)
C18_MalformedBodyIsClientError ==
  (Responded /\ endpoint = "analyze" /\ MalformedBody) =>
     /\ 400 <= response.status
     /\ response.status < 500

(* C19: a decoded numeric confidence c with 0 <= c <= 1, the endpoints 0
   and 1 included, is the confidence of the result; an absent confidence
   gives 0.5. *)
C19_ClampIsIdentityInRange ==
  (Returned200 /\ C1_Applies) =>
     \A k \in DOMAIN calls :
        IsPayload(calls[k].b) =>
           LET c == Decoded(calls[k].b).confidence
           IN /\ (c.t = "number" /\ 0 <= c.n /\ c.n <= 10) =>
                    ReturnedFor(k).confidence = c
              /\ c.t = "undefined" => ReturnedFor(k).confidence = Num(5)

NoSpecificCitation == Str(Lit("No specific citation provided", 29))

(* call k came back with a reply text and its result was built from it:
   from the decoded value or from the parser's fallback verdict *)
BuiltFromReply(k) ==
  /\ calls[k].done
  /\ ~callGemini(calls[k].b).threw
  /\ ~Throws(analysisResult(callGemini(calls[k].b).text))

(* the citation member of what the reply of call k decodes to *)
DecodedCitation(k) == Get(analysisResult(callGemini(calls[k].b).text), "citation")

(* C20 as stated: the citation of a result built from a backend reply has
   the decoded citation as its text, and the placeholder "No specific
   citation provided" only when the decoded citation is absent; its file
   name is the name of the first supplied policy. *)
C20_PlaceholderOnlyWhenAbsent ==
  (Returned200 /\ C1_Applies) =>
     \A k \in DOMAIN calls :
        BuiltFromReply(k) =>
           /\ ReturnedFor(k).citations[1].fileName = Str(policies[1].name)
           /\ ReturnedFor(k).citations[1].text =
                 IF DecodedCitation(k) = Undefined THEN NoSpecificCitation
                 ELSE DecodedCitation(k)

(* C20: the citation of a result built from a backend reply has the decoded
   citation as its text, and the placeholder "No specific citation
   provided" when the decoded citation is absent or the empty string; its
   file name is the name of the first supplied policy, "policy.pdf" when
   the policy list is empty. *)
C20_CitationTextAndFileName ==
  (Returned200 /\ PassedChecks) =>
     \A k \in DOMAIN calls :
        BuiltFromReply(k) =>
           /\ ReturnedFor(k).citations[1].fileName =
                 IF policies = <<>> THEN Str(Lit("policy.pdf", 10))
                 ELSE Str(policies[1].name)
           /\ ReturnedFor(k).citations[1].text =
                 IF DecodedCitation(k) \in {Undefined, Str(<<>>)} THEN NoSpecificCitation
                 ELSE DecodedCitation(k)

(* two policies; the first reply has an empty citation, the second one is
   prose that does not decode *)
C20_Witness ==
  /\ Returned200 /\ C1_Applies
  /\ Len(policies) = 2
  /\ Len(calls) = 2
  /\ calls[1].b = Behaviour("text", ObjectText("mEmptyCitation"))
  /\ calls[2].b = Behaviour("text", Prose(250))
  /\ ReturnedFor(1).citations[1].text = NoSpecificCitation
  /\ ReturnedFor(2).citations[1].text = Str(Prose(200))
  /\ ReturnedFor(2).citations[1].fileName = Str(policies[1].name)

(* the number of steps the handler can still take, at most *)
Rank ==
  LET left == Len(questions) + 1 - idx
  IN CASE pc = "dispatch" -> 3 * Len(questions) + 6
       [] pc = "request" -> 3 * Len(questions) + 5
       [] pc = "loop" -> 3 * left + 1
       [] pc = "calling" -> 3 * left
       [] pc = "pacing" -> 3 * left - 1
       [] OTHER -> 0

(* C21: provided every backend call comes to an end, the analyze operation
   returns: until it has responded some step can be taken, and every step
   lowers a rank that is a natural number.  A returned result collection
   holds a result for every question of the list, never a part of them. *)
C21_TerminatesWithAllResults ==
  /\ [](Rank \in Nat)
  /\ [](~Responded => ENABLED Next)
  /\ [][Rank' < Rank]_vars
  /\ [](Returned200 =>
          /\ Len(response.results) = Len(questions)
          /\ \A i \in DOMAIN questions :
                response.results[i].questionId = questions[i].id)

(* a returned collection of two results, one from the parser's fallback and
   one from a failed call *)
C21_Witness ==
  /\ Returned200
  /\ Len(questions) = 2
  /\ Len(response.results) = 2
  /\ calls[1].b = Behaviour("text", Prose(21))
  /\ calls[2].b.kind = "networkError"
  /\ response.results[2].reasoning = TechnicalError

(* C22: the returned collection is in input order: the i-th result carries
   the id and the text of the i-th question, also when some questions ended
   in the catch block or in the parser's fallback. *)
C22_ResultsInInputOrder ==
  Returned200 =>
     /\ DOMAIN response.results = DOMAIN questions
     /\ \A i \in DOMAIN response.results :
          /\ response.results[i].questionId = questions[i].id
          /\ response.results[i].question = questions[i].text

(* the first question failed, the second one fell back *)
C22_Witness ==
  /\ Returned200
  /\ Len(response.results) = 2
  /\ calls[1].b.kind = "httpError"
  /\ response.results[1].reasoning = TechnicalError
  /\ response.results[2].reasoning = FormatUnclear
  /\ response.results[1].questionId = questions[1].id
  /\ response.results[2].questionId = questions[2].id
  /\ questions[1].id # questions[2].id

KnownEndpoints == {"upload-policies", "upload-questions", "analyze"}

(* the handler that was called rejects when it reads the body *)
UnreadableBody ==
  \/ handler = "handleAnalysis" /\ ~body.json
  \/ handler \in {"handlePolicyUpload", "handleQuestionUpload"} /\ body.form = "none"

(* C23: POST answers 400 'Unknown endpoint' and calls no handler when the
   endpoint parameter is missing or is none of upload-policies,
   upload-questions, analyze; and whenever a handler throws (a body that
   cannot be read, a null question) the answer is 500 'Internal server
   error'. *)
C23_DispatcherTotal ==
  /\ endpoint \notin KnownEndpoints =>
        /\ handler = "none"
        /\ pc \in {"dispatch", "responded"}
        /\ calls = <<>>
        /\ Responded => response = ErrorResponse(400, "Unknown endpoint")
  /\ (Responded /\ UnreadableBody) =>
        response = ErrorResponse(500, "Internal server error")
  /\ (Responded /\ handler = "handleAnalysis" /\ body.json /\ ~MissingInput(body)
        /\ GOOGLE_API_KEY /\ ~TypedBatch) =>
        response = ErrorResponse(500, "Internal server error")
  /\ Responded => response.status \in {200, 400, 500}

(* a missing endpoint parameter was answered *)
C23_Witness ==
  /\ Responded
  /\ endpoint = "null"
  /\ body.json
  /\ response.status = 400
  /\ response.error = "Unknown endpoint"

(* a step in which an analyze request comes back *)
Settling == Len(fetches') < Len(fetches)

(* C24: analyzing is true exactly while an analyze request is out; every
   request that is out can come back, and the step in which it comes back
   sets analyzing to false, whether the response is OK, is not OK, or the
   fetch was rejected. *)
C24_AnalyzingIsReset ==
  /\ [](page.analyzing <=> fetches # <<>>)
  /\ [](fetches # <<>> => \A o \in Outcomes : ENABLED AnalyzeSettles(1, o))
  /\ [][Settling => ~page'.analyzing]_vars

(* a failed analysis has come back and the page is not analyzing *)
C24_Witness ==
  /\ settled.kind = "networkError"
  /\ ~page.analyzing
  /\ fetches = <<>>
  /\ invocations = 2

Failed(o) == o.kind \in {"notOk", "networkError"}

(* C25: when an analysis fails (a non-OK response, a rejected fetch) the
   step that ends it leaves results and activeTab as they were; results
   change only when a request comes back, and a request that comes back
   changes results or the tab only if its response was OK, the tab then
   being "results". *)
C25_FailureKeepsResults ==
  /\ [][(Settling /\ Failed(settled')) =>
          /\ page'.results = page.results
          /\ page'.activeTab = page.activeTab]_vars
  /\ [][page'.results # page.results => Settling]_vars
  /\ [][(Settling /\ (page'.results # page.results
                       \/ page'.activeTab # page.activeTab)) =>
          /\ ResponseOk(settled')
          /\ page'.activeTab = "results"]_vars

(* results of an earlier analysis are on the page after a later one failed,
   and the tab is the one the user was on *)
C25_Witness ==
  /\ settled.kind = "notOk"
  /\ page.results = <<"r1">>
  /\ page.activeTab = "analysis"
  /\ fetches = <<>>

(* C26: a call of runAnalysis while the policy list or the question list is
   empty sends no request and changes neither analyzing nor results nor
   activeTab; no analyze request ever carries an empty list. *)
C26_EmptyInputSendsNothing ==
  /\ [][(invocations' # invocations
          /\ (page.policies = <<>> \/ page.questions = <<>>)) =>
          /\ fetches' = fetches
          /\ page' = page]_vars
  /\ [](\A i \in DOMAIN fetches :
          fetches[i].policies # <<>> /\ fetches[i].questions # <<>>)

(* runAnalysis was called three times with policies and without questions,
   and nothing was sent *)
C26_Witness ==
  /\ invocations = 3
  /\ page.policies # <<>>
  /\ page.questions = <<>>
  /\ fetches = <<>>
  /\ settled = NotSettled
  /\ ~page.analyzing

(* C27: the page never has two analyze requests out at the same time: a
   request is sent only in a state where analyzing is false, and analyzing
   is true as long as the request is out. *)
C27_OneAnalysisAtATime ==
  /\ [](Len(fetches) <= 1)
  /\ [](fetches # <<>> => page.analyzing)
  /\ [][Len(fetches') > Len(fetches) => ~page.analyzing /\ page'.analyzing]_vars

(* a second analysis is out, after the first has come back; the user is on
   the analysis tab with both lists filled *)
C27_Witness ==
  /\ invocations = 2
  /\ Len(fetches) = 1
  /\ settled # NotSettled
  /\ page.analyzing
  /\ page.activeTab = "analysis"
  /\ page.policies # <<>> /\ page.questions # <<>>

(* C28: once every upload has come back, uploadedFiles and the list last
   passed to onUploadComplete hold exactly the policies that successful
   uploads returned and that were not removed, whatever the interleaving of
   uploads and removals was. *)
C28_NoLostUpdate ==
  policyFetches = <<>> =>
     /\ Range(policyUpload.uploadedFiles) = returned \ removed
     /\ page.policies = policyUpload.uploadedFiles

(* components.tsx line 475: the extracted-questions card is rendered *)
CardShown ==
  /\ questionUpload.uploadedFile # NoFile
  /\ questionUpload.extractedQuestions # <<>>

(* C30: whenever the extracted-questions card is shown and no upload is in
   flight, the file it names is the file the held extractedQuestions were
   extracted from, and these are the questions last passed to
   onUploadComplete, also after failed uploads. *)
C30_FileMatchesQuestions ==
  (CardShown /\ questionFetches = <<>>) =>
     /\ questionUpload.extractedQuestions =
           QuestionsFrom(questionUpload.uploadedFile)
     /\ page.questions = questionUpload.extractedQuestions

(* C29: for every result list the analyze endpoint returns, the counts
   AnalysisResults shows for Yes, Maybe and No add up to the total number
   of results it shows. *)
C29_CountsSumToTotal ==
  (Returned200 /\ C1_Applies) =>
     LET counts == statusCounts(response.results)
     IN Displayed(counts, Str(Lit("Yes", 3)))
        + Displayed(counts, Maybe)
        + Displayed(counts, Str(Lit("No", 2))) = Len(response.results)

====
